---- MODULE Spec2Model ----
(***************************************************************************)
(* A model of src/app.py, the golf launch monitor dashboard script:        *)
(* load_and_clean_csv and the session loading loop, convert_lr_to_float,   *)
(* numeric coercion, the club recommendation, the per-club distance        *)
(* summary and the outlier filtering block.                                *)
(*                                                                         *)
(* Strings are sequences of one-character strings.  A number is a          *)
(* fixed-point integer counting units of 1/Scale, so that every decimal    *)
(* literal the bounded strings can spell has an exact value.               *)
(***************************************************************************)
EXTENDS Integers, Sequences, FiniteSets, TLC

VARIABLES
    pc,               \* position of the script / of the function under check
    value,            \* argument of convert_lr_to_float
    result,           \* value returned by convert_lr_to_float
    session_files,    \* the files matched by glob (src/app.py:48)
    fidx,             \* number of session files the loading loop has handled
    all_sessions,     \* list of per-file tables (src/app.py:49)
    df,               \* merged table (src/app.py:57)
    filtered_df,      \* the working table of the pipeline (src/app.py:78)
    remove_outliers,  \* sidebar checkbox (src/app.py:42)
    target_distance,  \* number input (src/app.py:117)
    best_match,       \* club shown by the recommendation (src/app.py:127)
    distance_summary, \* per-club min/mean/max table (src/app.py:149)
    coerced_df        \* history: the table as numeric coercion left it (src/app.py:113)

vars == <<pc, value, result, session_files, fidx, all_sessions, df,
          filtered_df, remove_outliers, target_distance, best_match,
          distance_summary, coerced_df>>

parseVars == <<value, result>>
loadVars  == <<session_files, fidx, all_sessions, df>>
pipeVars  == <<filtered_df, remove_outliers, target_distance, best_match,
               distance_summary, coerced_df>>

----------------------------------------------------------------------------
(* Bounds *)

\* longest string handed to convert_lr_to_float
MaxLen == 4
\* most data rows of a session file loaded on its own
MaxFileRows == 2
\* most session files of a batch, and most data rows of a file of a batch
MaxFiles == 2
MaxBatchRows == 1
\* most rows of a table the aggregation is checked on
MaxAggRows == 3
\* most rows of a table the IQR passes are checked on, and of a table the
\* fixed bounds are checked on
MaxRows == 5
MaxBoundRows == 2

----------------------------------------------------------------------------
(* Values: a cell of a table or an argument of a function *)

Str(s) == [k |-> "str", s |-> s, v |-> 0]
Num(n) == [k |-> "num", s |-> <<>>, v |-> n]
NaN    == [k |-> "nan", s |-> <<>>, v |-> 0]

\* isinstance(value, str)
IsStr(x) == x.k = "str"
\* a float that is not NaN
IsNum(x) == x.k = "num"

RECURSIVE Pow10(_)
Pow10(n) == IF n = 0 THEN 1 ELSE 10 * Pow10(n - 1)

\* the longest fraction a string of MaxLen characters can spell (".ddd")
FracDigits == MaxLen - 1
Scale == Pow10(FracDigits)

DigitChars == {"0", "1", "2", "3", "4", "5", "6", "7", "8", "9"}

DigitVal(c) ==
    CASE c = "0" -> 0 [] c = "1" -> 1 [] c = "2" -> 2 [] c = "3" -> 3 [] c = "4" -> 4
      [] c = "5" -> 5 [] c = "6" -> 6 [] c = "7" -> 7 [] c = "8" -> 8 [] c = "9" -> 9

AllDigits(t) == \A i \in 1..Len(t) : t[i] \in DigitChars

RECURSIVE DigitsToInt(_)
DigitsToInt(t) ==
    IF t = <<>> THEN 0
    ELSE 10 * DigitsToInt(SubSeq(t, 1, Len(t) - 1)) + DigitVal(t[Len(t)])

\* index of the first "." of t, 0 when there is none
PointPos(t) ==
    IF \E i \in 1..Len(t) : t[i] = "."
    THEN CHOOSE i \in 1..Len(t) : t[i] = "." /\ \A j \in 1..(i - 1) : t[j] # "."
    ELSE 0

IntPart(t)  == IF PointPos(t) = 0 THEN t ELSE SubSeq(t, 1, PointPos(t) - 1)
FracPart(t) == IF PointPos(t) = 0 THEN <<>> ELSE SubSeq(t, PointPos(t) + 1, Len(t))

\* the value of the decimal digits t = int[.frac], in units of 1/Scale
DecValue(t) ==
    DigitsToInt(IntPart(t)) * Scale
    + DigitsToInt(FracPart(t)) * Pow10(FracDigits - Len(FracPart(t)))

----------------------------------------------------------------------------
(* convert_lr_to_float, src/app.py:87-97 *)

RECURSIVE lstrip(_)
lstrip(s) == IF s # <<>> /\ s[1] = " " THEN lstrip(Tail(s)) ELSE s

RECURSIVE rstrip(_)
rstrip(s) ==
    IF s # <<>> /\ s[Len(s)] = " " THEN rstrip(SubSeq(s, 1, Len(s) - 1)) ELSE s

\* str.strip()
strip(s) == rstrip(lstrip(s))

\* \d+(\.\d+)?
ReMagnitude(t) ==
    /\ AllDigits(IntPart(t)) /\ IntPart(t) # <<>>
    /\ PointPos(t) # 0 => (AllDigits(FracPart(t)) /\ FracPart(t) # <<>>)

\* re.match(r'^([LR])(\d+(\.\d+)?)$', s)
ReMatch(s) == s # <<>> /\ s[1] \in {"L", "R"} /\ ReMagnitude(Tail(s))

\* float(s) on an unsigned body: digits with an optional point, at least one
\* digit ("5", "5.", ".5", "5.5"; not "." and not "").  Exponents, inf, nan
\* and underscores need characters outside Alphabet.
FloatBodyOk(t) ==
    /\ AllDigits(IntPart(t)) /\ AllDigits(FracPart(t))
    /\ IntPart(t) # <<>> \/ FracPart(t) # <<>>

\* float(s) does not raise
FloatOk(s) ==
    /\ s # <<>>
    /\ IF s[1] = "-" THEN FloatBodyOk(Tail(s)) ELSE FloatBodyOk(s)

\* float(s), when it does not raise
FloatVal(s) == IF s[1] = "-" THEN 0 - DecValue(Tail(s)) ELSE DecValue(s)

\* the same function with the sign of an L value lost
convert_lr_to_float_unsigned(x) ==
    IF IsStr(x)
    THEN LET s == strip(x.s) IN
         IF ReMatch(s) THEN Num(DecValue(Tail(s)))
         ELSE IF FloatOk(s) THEN Num(FloatVal(s)) ELSE Str(s)
    ELSE x

convert_lr_to_float(x) ==
    IF IsStr(x)
    THEN LET s == strip(x.s) IN
         IF ReMatch(s)
         THEN IF s[1] = "L" THEN Num(0 - DecValue(Tail(s)))
                            ELSE Num(DecValue(Tail(s)))
         ELSE IF FloatOk(s) THEN Num(FloatVal(s)) ELSE Str(s)
    ELSE x

----------------------------------------------------------------------------
(* States of the variables a specification does not use *)

IdleParse == value = NaN /\ result = NaN
IdleLoad  ==
    /\ session_files = <<>> /\ fidx = 0 /\ all_sessions = <<>>
    /\ df = [columns |-> <<>>, rows |-> <<>>]
IdlePipe  ==
    /\ filtered_df = <<>> /\ remove_outliers = FALSE /\ target_distance = 0
    /\ best_match = "" /\ distance_summary = <<>> /\ coerced_df = <<>>

----------------------------------------------------------------------------
(* SpecParse: convert_lr_to_float applied to one value *)

\* the characters the checked strings are spelt with
Alphabet == {"L", "R", "l", "1", "5", ".", " ", "-"}

Strings == UNION {[1..n -> Alphabet] : n \in 0..MaxLen}

\* what a cell can hold before the directional fix: a string of an object
\* column, a float of a numeric column, or NaN for an empty cell
InputValues ==
    {Str(s) : s \in Strings} \cup {Num(n * Scale) : n \in {-5, 0, 51}} \cup {NaN}

InitParse ==
    /\ pc = "call"
    /\ value \in InputValues
    /\ result = NaN
    /\ IdleLoad /\ IdlePipe

\* filtered_df[col].apply(convert_lr_to_float), one element (src/app.py:107)
Convert ==
    /\ pc = "call"
    /\ result' = convert_lr_to_float(value)
    /\ pc' = "returned"
    /\ UNCHANGED <<value, loadVars, pipeVars>>

NextParse == Convert

SpecParse == InitParse /\ [][NextParse]_vars

(* The forms of a string, as the description of the directional parser     *)
(* names them, read on the characters themselves.                          *)

\* t spells a non-negative decimal: digits, or digits "." digits
IsDecimalLiteral(t) ==
    \E n \in 1..Len(t) :
        /\ \A i \in 1..n : t[i] \in DigitChars
        /\ \/ n = Len(t)
           \/ /\ n + 2 <= Len(t)
              /\ t[n + 1] = "."
              /\ \A i \in (n + 2)..Len(t) : t[i] \in DigitChars

\* t spells a plain number: an optional minus sign, then digits with at most
\* one point among them
IsPlainNumber(t) ==
    LET u == IF t # <<>> /\ t[1] = "-" THEN Tail(t) ELSE t IN
    /\ \E i \in 1..Len(u) : u[i] \in DigitChars
    /\ \A i \in 1..Len(u) : u[i] \in DigitChars \cup {"."}
    /\ Cardinality({i \in 1..Len(u) : u[i] = "."}) <= 1

PlainNumberValue(t) ==
    IF t[1] = "-" THEN 0 - DecValue(Tail(t)) ELSE DecValue(t)

\* what the directional parser is said to return for the string t, and
\* `other` for a string of no recognised form
FormResult(t, other) ==
    IF t # <<>> /\ t[1] = "L" /\ IsDecimalLiteral(Tail(t))
    THEN Num(0 - DecValue(Tail(t)))
    ELSE IF t # <<>> /\ t[1] = "R" /\ IsDecimalLiteral(Tail(t))
    THEN Num(DecValue(Tail(t)))
    ELSE IF IsPlainNumber(t) THEN Num(PlainNumberValue(t))
    ELSE other

\* s without its leading and trailing blanks, as the slice of s between its
\* first and its last non-blank character
Trimmed(s) ==
    LET inked == {i \in 1..Len(s) : s[i] # " "} IN
    IF inked = {} THEN <<>>
    ELSE SubSeq(s, CHOOSE i \in inked : \A j \in inked : i <= j,
                   CHOOSE i \in inked : \A j \in inked : i >= j)

----------------------------------------------------------------------------
(* load_and_clean_csv, src/app.py:11-39                                    *)
(*                                                                         *)
(* A file is its lines, a line is its cells, and a cell or a column name   *)
(* is a sequence of tokens: words, " ", "(yd)", "(mph)".  The empty cell   *)
(* <<>> is what read_csv and concat hold as NaN.                           *)

Range(f) == {f[i] : i \in DOMAIN f}

Null == <<>>

\* pd.read_csv(filepath, skiprows=2)
SkipRows == 2

ClubCol    == <<"Club">>
IndexCol   == <<"Index">>
SessionCol == <<"Session">>

\* pd.DataFrame()
EmptyFrame == [columns |-> <<>>, rows |-> <<>>]

\* the lines of the file: leading metadata lines, the header line, the data
Lines(f) ==
    [i \in 1..f.lead |-> << <<"Date">> >>] \o << f.header >> \o f.lines

\* read_csv raises (caught at line 14): the file cannot be read, or nothing
\* is left after the skipped rows (EmptyDataError)
ReadCsvRaises(f) == ~f.readable \/ Len(Lines(f)) <= SkipRows

\* .str.strip().str.replace('(yd)', '').str.replace('(mph)', '').str.replace(' ', '')
NormaliseColumn(name) ==
    SelectSeq(name, LAMBDA tok : tok \notin {" ", "(yd)", "(mph)"})

\* df.columns after line 18: the line after the skipped rows is the header
Columns(f) ==
    LET h == Lines(f)[SkipRows + 1] IN
    [i \in 1..Len(h) |-> NormaliseColumn(h[i])]

ColumnIndex(cols, c) == CHOOSE i \in 1..Len(cols) : cols[i] = c

\* the data rows read_csv returns, each a function from column to cell
DataRows(f) ==
    LET cols == Columns(f)
        data == SubSeq(Lines(f), SkipRows + 2, Len(Lines(f)))
    IN  [j \in 1..Len(data) |->
            [c \in Range(cols) |->
                IF ColumnIndex(cols, c) <= Len(data[j])
                THEN data[j][ColumnIndex(cols, c)] ELSE Null]]

\* .astype(str).str.contains("Average|Deviation", na=False), on the tokens;
\* a NaN index becomes the string "nan", which holds neither word
ContainsSentinel(cell) ==
    \E i \in 1..Len(cell) : cell[i] \in {"Average", "Deviation"}

\* the row mask of line 24
KeepRow(r) == r[ClubCol] # Null /\ ~ContainsSentinel(r[IndexCol])

\* rename_map, lines 27-34, in dictionary order; the pairs that copy a column
\* onto itself are left out
rename_map ==
    << << <<"Total">>, <<"Total", " ", "Distance">> >>,
       << <<"BallSpeed">>, <<"Ball", " ", "Speed">> >>,
       << <<"LaunchAngle">>, <<"Launch", " ", "Angle">> >>,
       << <<"SpinRate">>, <<"Spin", " ", "Rate">> >> >>

\* df[new] = df[original] on one table
CopyColumn(t, original, new) ==
    IF original \notin Range(t.columns) THEN t
    ELSE [columns |->
              IF new \in Range(t.columns) THEN t.columns
              ELSE Append(t.columns, new),
          rows |->
              [j \in 1..Len(t.rows) |->
                  [c \in Range(t.columns) \cup {new} |->
                      IF c = new THEN t.rows[j][original] ELSE t.rows[j][c]]]]

RECURSIVE ApplyRenames(_, _)
ApplyRenames(t, k) ==
    IF k > Len(rename_map) THEN t
    ELSE ApplyRenames(CopyColumn(t, rename_map[k][1], rename_map[k][2]), k + 1)

\* the call's outcome: a returned table, or the KeyError that df["Index"]
\* raises at line 24 when the file has a Club column and no Index column
load_and_clean_csv(f) ==
    IF ReadCsvRaises(f) THEN [raised |-> FALSE, table |-> EmptyFrame]
    ELSE IF ClubCol \notin Range(Columns(f))
    THEN [raised |-> FALSE, table |-> EmptyFrame]
    ELSE IF IndexCol \notin Range(Columns(f))
    THEN [raised |-> TRUE, table |-> EmptyFrame]
    ELSE [raised |-> FALSE,
          table  |-> ApplyRenames([columns |-> Columns(f),
                                   rows |-> SelectSeq(DataRows(f), KeepRow)], 1)]

----------------------------------------------------------------------------
(* The session loading loop, src/app.py:48-60 *)

\* df_temp["Session"] = session_date
TagSession(t, session_date) ==
    [columns |-> IF SessionCol \in Range(t.columns) THEN t.columns
                 ELSE Append(t.columns, SessionCol),
     rows |-> [j \in 1..Len(t.rows) |->
                  [c \in Range(t.columns) \cup {SessionCol} |->
                      IF c = SessionCol THEN session_date ELSE t.rows[j][c]]]]

\* the columns of a concat: the union, in order of first appearance
RECURSIVE ConcatColumns(_)
ConcatColumns(frames) ==
    IF frames = <<>> THEN <<>>
    ELSE LET before == ConcatColumns(SubSeq(frames, 1, Len(frames) - 1))
             last == frames[Len(frames)].columns
         IN  before \o SelectSeq(last, LAMBDA c : c \notin Range(before))

RECURSIVE ConcatRows(_, _)
ConcatRows(frames, cols) ==
    IF frames = <<>> THEN <<>>
    ELSE LET last == frames[Len(frames)] IN
         ConcatRows(SubSeq(frames, 1, Len(frames) - 1), cols)
         \o [j \in 1..Len(last.rows) |->
                [c \in cols |->
                    IF c \in Range(last.columns) THEN last.rows[j][c] ELSE Null]]

\* pd.concat(all_sessions, ignore_index=True) if all_sessions else pd.DataFrame()
Concat(frames) ==
    IF frames = <<>> THEN EmptyFrame
    ELSE [columns |-> ConcatColumns(frames),
          rows |-> ConcatRows(frames, Range(ConcatColumns(frames)))]

\* df.empty
IsEmptyFrame(t) == t.columns = <<>> \/ t.rows = <<>>

\* the same turn, ending the loop at the first file that yields no table
LoadSessionAborting ==
    /\ pc = "loading"
    /\ fidx < Len(session_files)
    /\ LET f == session_files[fidx + 1]
           got == load_and_clean_csv(f)
       IN  IF got.raised
           THEN /\ pc' = "crashed"
                /\ UNCHANGED <<fidx, all_sessions>>
           ELSE IF got.table = EmptyFrame
           THEN /\ pc' = "stopped"
                /\ UNCHANGED <<fidx, all_sessions>>
           ELSE /\ all_sessions' = Append(all_sessions, TagSession(got.table, f.name))
                /\ fidx' = fidx + 1
                /\ pc' = pc
    /\ UNCHANGED <<session_files, df, parseVars, pipeVars>>

\* one turn of the loop of lines 51-55; an uncaught KeyError ends the script
LoadSession ==
    /\ pc = "loading"
    /\ fidx < Len(session_files)
    /\ LET f == session_files[fidx + 1]
           got == load_and_clean_csv(f)
       IN  IF got.raised
           THEN /\ pc' = "crashed"
                /\ UNCHANGED <<fidx, all_sessions>>
           ELSE /\ all_sessions' = Append(all_sessions, TagSession(got.table, f.name))
                /\ fidx' = fidx + 1
                /\ pc' = pc
    /\ UNCHANGED <<session_files, df, parseVars, pipeVars>>

\* lines 57-60: merge, and stop the script when nothing was loaded
Merge ==
    /\ pc = "loading"
    /\ fidx = Len(session_files)
    /\ df' = Concat(all_sessions)
    /\ pc' = IF IsEmptyFrame(Concat(all_sessions)) THEN "stopped" ELSE "merged"
    /\ UNCHANGED <<session_files, fidx, all_sessions, parseVars, pipeVars>>

NextLoad == LoadSession \/ Merge

----------------------------------------------------------------------------
(* The session files the loading specifications start from *)

\* header rows of the export: with unit suffixes, with stray blanks, without
\* the Club column, without the Index column
HeaderFull    == << <<"Index">>, <<"Club">>, <<"Carry", "(yd)">>, <<"Total", "(yd)">> >>
HeaderSpaced  == << <<"Index">>, <<" ", "Club", " ">>, <<"Carry", " ", "(yd)">>,
                    <<"Total", " ", "(yd)">> >>
HeaderNoClub  == << <<"Index">>, <<"Carry", "(yd)">>, <<"Total", "(yd)">> >>
HeaderNoIndex == << <<"Club">>, <<"Carry", "(yd)">>, <<"Total", "(yd)">> >>

\* the cell a data row holds under the header cell h
FieldOf(shot, h) ==
    LET c == NormaliseColumn(h) IN
    IF c = IndexCol THEN shot.Index
    ELSE IF c = ClubCol THEN shot.Club
    ELSE IF c = <<"Carry">> THEN <<"150">>
    ELSE <<"160">>

DataLine(header, shot) == [i \in 1..Len(header) |-> FieldOf(shot, header[i])]

SeqsUpTo(S, n) == UNION {[1..k -> S] : k \in 0..n}

FileOf(name, lead, header, shots) ==
    [name |-> name, readable |-> TRUE, lead |-> lead, header |-> header,
     lines |-> [j \in 1..Len(shots) |-> DataLine(header, shots[j])]]

UnreadableFile(name) ==
    [name |-> name, readable |-> FALSE, lead |-> SkipRows, header |-> HeaderFull,
     lines |-> <<>>]

\* os.path.basename(f) without "session_" and ".csv", for the i-th file
SessionName(i) == << ToString(i) >>

\* data rows of one file loaded on its own: shots, summary rows, and rows
\* whose Club or Index cell is empty, blank or a summary word
IndexCells == {<<"1">>, <<"Average">>, <<"Std", " ", "Deviation">>, Null}
ClubCells  == {<<"7", " ", "Iron">>, <<"Average">>, <<"Deviation">>, <<" ">>, Null}
Shots      == [Index : IndexCells, Club : ClubCells]

OneFiles ==
    {UnreadableFile(SessionName(1))} \cup
    {FileOf(SessionName(1), lead, header, shots) :
        lead \in 0..SkipRows,
        header \in {HeaderFull, HeaderSpaced, HeaderNoClub, HeaderNoIndex},
        shots \in SeqsUpTo(Shots, MaxFileRows)}

\* SpecLoadOne: the loading loop over a single session file
InitLoadOne ==
    /\ pc = "loading"
    /\ session_files \in {<<f>> : f \in OneFiles}
    /\ fidx = 0
    /\ all_sessions = <<>>
    /\ df = EmptyFrame
    /\ IdleParse /\ IdlePipe

SpecLoadOne == InitLoadOne /\ [][NextLoad]_vars

\* data rows of the files of a batch: a shot and the device's Average row
BatchShots ==
    {[Index |-> <<"1">>, Club |-> <<"7", " ", "Iron">>],
     [Index |-> <<"Average">>, Club |-> Null]}

BatchFiles(name) ==
    {UnreadableFile(name)} \cup
    {FileOf(name, SkipRows, header, shots) :
        header \in {HeaderFull, HeaderNoClub, HeaderNoIndex},
        shots \in SeqsUpTo(BatchShots, MaxBatchRows)} \cup
    {FileOf(name, 0, HeaderFull, shots) : shots \in SeqsUpTo(BatchShots, MaxBatchRows)}

\* SpecLoad: the loading loop over a batch of session files
InitLoad ==
    /\ pc = "loading"
    /\ \E n \in 0..MaxFiles :
           /\ session_files \in [1..n -> UNION {BatchFiles(SessionName(i)) : i \in 1..n}]
           /\ \A i \in 1..n : session_files[i].name = SessionName(i)
    /\ fidx = 0
    /\ all_sessions = <<>>
    /\ df = EmptyFrame
    /\ IdleParse /\ IdlePipe

SpecLoad == InitLoad /\ [][NextLoad]_vars

----------------------------------------------------------------------------
(* Claims about loading *)

\* a cell of blanks only
IsBlank(cell) == cell # Null /\ \A i \in 1..Len(cell) : cell[i] = " "

\* C1 as stated: no row of a table returned by load_and_clean_csv has a club
\* that is null, blank, "Average" or "Deviation", whatever its Index cell.
C1_ClubNeverSentinel ==
    \A k \in 1..Len(all_sessions) :
        ClubCol \in Range(all_sessions[k].columns) =>
            \A j \in 1..Len(all_sessions[k].rows) :
                LET club == all_sessions[k].rows[j][ClubCol] IN
                /\ club # Null
                /\ ~IsBlank(club)
                /\ club \notin {<<"Average">>, <<"Deviation">>}

\* C7 as stated: the same header and data rows behind 0, 1 or 2 leading
\* metadata rows load to the same columns and the same shot rows.
C7_SameForEveryOffset ==
    \A k \in 1..Len(all_sessions) :
        \A lead \in 0..SkipRows :
            LET f == session_files[k]
                g == [f EXCEPT !.lead = lead]
            IN  (f.readable /\ f.lines # <<>> /\ ~load_and_clean_csv(g).raised) =>
                    all_sessions[k] = TagSession(load_and_clean_csv(g).table, f.name)

\* the file fails in one of the two named ways: it cannot be read, or the
\* header the loader reads has no Club column once normalised
Fails(f) ==
    \/ ~f.readable
    \/ Len(Lines(f)) <= SkipRows
    \/ \A i \in 1..Len(Lines(f)[SkipRows + 1]) :
           NormaliseColumn(Lines(f)[SkipRows + 1][i]) # ClubCol

\* the file loads: it has the Club and the Index column
Loads(f) ==
    /\ ~Fails(f)
    /\ \E i \in 1..Len(Lines(f)[SkipRows + 1]) :
           NormaliseColumn(Lines(f)[SkipRows + 1][i]) = IndexCol

\* a table: distinct column names, and every row has a cell for each column
WellFormed(t) ==
    /\ DOMAIN t = {"columns", "rows"}
    /\ \A i, j \in 1..Len(t.columns) : t.columns[i] = t.columns[j] => i = j
    /\ \A j \in 1..Len(t.rows) : DOMAIN t.rows[j] = Range(t.columns)

\* the rows of the merged table tagged with the session of file f, cut to
\* the columns cols
SessionRows(f, cols) ==
    LET mine == SelectSeq(df.rows, LAMBDA r : r[SessionCol] = f.name) IN
    [j \in 1..Len(mine) |-> [c \in cols |-> mine[j][c]]]

----------------------------------------------------------------------------
(* The pipeline on the selected table, src/app.py:105-259                  *)
(*                                                                         *)
(* filtered_df is [columns, rows]: a set of column names and a sequence of *)
(* rows, each a function from the columns to cells.  A Club cell is the    *)
(* club's name; any other cell is a Str, a Num or NaN as read_csv typed    *)
(* it.  Every step below works cell by cell or on the numbers of a column. *)

Yards(n) == Num(n * Scale)

Abs(n) == IF n < 0 THEN 0 - n ELSE n

RECURSIVE Sum(_)
Sum(s) == IF s = <<>> THEN 0 ELSE s[1] + Sum(Tail(s))

\* the directional columns the modelled tables can hold (the rest of the
\* list of lines 100-103 is absent from them and skipped)
directional_cols == {"Offline"}

\* numeric_cols, line 110, among the modelled columns
numeric_cols == {"Carry", "Total Distance", "Ball Speed", "Spin Rate"}

\* filtered_df[col] = filtered_df[col].apply(F), for the columns of cols present
\* (F is given as the function from the table's cells to their images)
ApplyToColumns(t, cols, F) ==
    [columns |-> t.columns,
     rows |-> [j \in 1..Len(t.rows) |->
                 [c \in t.columns |->
                     IF c \in cols THEN F[t.rows[j][c]] ELSE t.rows[j][c]]]]

\* the cells of the columns cols of a table
Cells(t, cols) == {t.rows[j][c] : j \in 1..Len(t.rows), c \in cols \cap t.columns}

\* pd.to_numeric(errors="coerce") on one cell: a string that does not parse
\* becomes NaN; blanks around the number are skipped
to_numeric(x) ==
    IF IsStr(x)
    THEN IF FloatOk(strip(x.s)) THEN Num(FloatVal(strip(x.s))) ELSE NaN
    ELSE x

\* df[mask]: the rows whose entry of the boolean mask is True, in order
FilterRows(t, mask) ==
    LET idx == SelectSeq([j \in 1..Len(t.rows) |-> j], LAMBDA j : mask[j]) IN
    [columns |-> t.columns, rows |-> [k \in 1..Len(idx) |-> t.rows[idx[k]]]]

\* the numbers of a column, NaN skipped
ColumnNumbers(rows, col) ==
    LET nums == SelectSeq(rows, LAMBDA r : IsNum(r[col])) IN
    [j \in 1..Len(nums) |-> nums[j][col].v]

\* the k-th smallest of the numbers vals, k in 1..Len(vals)
KthSmallest(vals, k) ==
    CHOOSE v \in Range(vals) :
        /\ Cardinality({i \in 1..Len(vals) : vals[i] < v}) < k
        /\ Cardinality({i \in 1..Len(vals) : vals[i] <= v}) >= k

\* four times Series.quantile(q4 / 4), linear interpolation between the
\* order statistics around position (n - 1) * q4 / 4; vals is not empty
Quantile4(vals, q4) ==
    LET pos4 == (Len(vals) - 1) * q4
        lo == pos4 \div 4
        part == pos4 % 4
        vlo == KthSmallest(vals, lo + 1)
    IN  IF part = 0 THEN 4 * vlo
        ELSE 4 * vlo + part * (KthSmallest(vals, lo + 2) - vlo)

\* the mask of line 247 with a strict lower comparison
IQRKeepStrict(x, vals) ==
    /\ IsNum(x)
    /\ vals # <<>>
    /\ LET Q1 == Quantile4(vals, 1)
           Q3 == Quantile4(vals, 3)
       IN  /\ 8 * x.v > 2 * Q1 - 3 * (Q3 - Q1)
           /\ 8 * x.v <= 2 * Q3 + 3 * (Q3 - Q1)

\* (x >= Q1 - 1.5 * IQR) & (x <= Q3 + 1.5 * IQR), both sides times 8; a NaN
\* cell, or a NaN quartile of a column without numbers, compares False
IQRKeep(x, vals) ==
    /\ IsNum(x)
    /\ vals # <<>>
    /\ LET Q1 == Quantile4(vals, 1)
           Q3 == Quantile4(vals, 3)
       IN  /\ 8 * x.v >= 2 * Q1 - 3 * (Q3 - Q1)
           /\ 8 * x.v <= 2 * Q3 + 3 * (Q3 - Q1)

\* one turn of the loop of lines 242-247
IQRPass(t, col) ==
    IF col \notin t.columns THEN t
    ELSE LET vals == ColumnNumbers(t.rows, col) IN
         FilterRows(t, [j \in 1..Len(t.rows) |-> IQRKeep(t.rows[j][col], vals)])

\* the thresholds of lines 251, 253 and 255
MinBallSpeed == 40
MinCarry == 30
MaxOffline == 50

\* the Offline test with the isinstance check lost
OfflineKeptUntyped(x) == ~IsNum(x) \/ Abs(x.v) <= MaxOffline * Scale

\* isinstance(x, (int, float)) and abs(x) <= 50; NaN is a float and fails
\* the comparison
OfflineKept(x) == IsNum(x) /\ Abs(x.v) <= MaxOffline * Scale

\* filtered_df[col] >= bound on one cell
AtLeast(x, bound) == IsNum(x) /\ x.v >= bound * Scale

\* the cleanup rules with the Carry rule left out
CustomRulesWithoutCarry(t) ==
    LET a == IF "Ball Speed" \in t.columns
             THEN FilterRows(t, [j \in 1..Len(t.rows) |-> AtLeast(t.rows[j]["Ball Speed"], MinBallSpeed)])
             ELSE t
    IN  IF "Offline" \in t.columns
        THEN FilterRows(a, [j \in 1..Len(a.rows) |-> OfflineKept(a.rows[j]["Offline"])])
        ELSE a

\* the custom cleanup rules, lines 250-255
CustomRules(t) ==
    LET a == IF "Ball Speed" \in t.columns
             THEN FilterRows(t, [j \in 1..Len(t.rows) |-> AtLeast(t.rows[j]["Ball Speed"], MinBallSpeed)])
             ELSE t
        b == IF "Carry" \in t.columns
             THEN FilterRows(a, [j \in 1..Len(a.rows) |-> AtLeast(a.rows[j]["Carry"], MinCarry)])
             ELSE a
    IN  IF "Offline" \in t.columns
        THEN FilterRows(b, [j \in 1..Len(b.rows) |-> OfflineKept(b.rows[j]["Offline"])])
        ELSE b

\* the two turns of the IQR loop
IQRPasses(t) == IQRPass(IQRPass(t, "Carry"), "Total Distance")

\* the whole block of lines 241-255 with the checkbox ticked
OutlierFilter(t) == CustomRules(IQRPasses(t))

----------------------------------------------------------------------------
(* Aggregation: the club recommendation and distance_summary *)

\* the clubs of the modelled tables, in the order groupby("Club") yields its
\* groups (sorted keys)
GroupOrder == <<"7 Iron", "8 Iron", "Driver">>

\* club_order, lines 136-148, on those clubs; "Driver" has no entry
club_order == [c \in {"7 Iron", "8 Iron"} |-> IF c = "7 Iron" THEN 6 ELSE 5]

\* the group keys of the table, in group order
GroupKeys(t) ==
    SelectSeq(GroupOrder, LAMBDA c : \E j \in 1..Len(t.rows) : t.rows[j]["Club"] = c)

\* the Total Distance numbers of one club
ClubTotals(t, club) ==
    ColumnNumbers(SelectSeq(t.rows, LAMBDA r : r["Club"] = club), "Total Distance")

\* Delta of club c <= Delta of club d, for clubs with a mean:
\* |sum/n - target| compared after multiplying by both counts
DeltaLeq(t, c, d, target) ==
    LET tc == ClubTotals(t, c)
        td == ClubTotals(t, d)
    IN  Abs(Sum(tc) - target * Len(tc)) * Len(td)
            <= Abs(Sum(td) - target * Len(td)) * Len(tc)

\* the clubs sort_values("Delta").iloc[0] can yield.  The default sort kind
\* (quicksort) is not stable, so among equal Deltas any club can come first;
\* NaN Deltas sort last, in group order.
BestMatches(t, target) ==
    LET keys == GroupKeys(t)
        known == {c \in Range(keys) : ClubTotals(t, c) # <<>>}
    IN  IF known = {} THEN {keys[1]}
        ELSE {c \in known : \A d \in known : DeltaLeq(t, c, d, target)}

\* round half to even of num / den, den > 0
RoundHalfEven(num, den) ==
    LET q == num \div den
        r == num - q * den
    IN  IF 2 * r < den THEN q
        ELSE IF 2 * r > den THEN q + 1
        ELSE IF q % 2 = 0 THEN q ELSE q + 1

Min(vals) == CHOOSE v \in Range(vals) : \A w \in Range(vals) : v <= w
Max(vals) == CHOOSE v \in Range(vals) : \A w \in Range(vals) : v >= w

\* the groups in display order: by club_order rank, clubs without a rank
\* last (their SortOrder is NaN), in group order
DisplayOrder(keys) ==
    LET ranked == SelectSeq(keys, LAMBDA c : c \in DOMAIN club_order)
        rest == SelectSeq(keys, LAMBDA c : c \notin DOMAIN club_order)
        by_rank == [i \in 1..Len(ranked) |->
                      CHOOSE c \in Range(ranked) :
                          Cardinality({d \in Range(ranked) : club_order[d] < club_order[c]})
                              = i - 1]
    IN  by_rank \o rest

\* .agg(["min", "mean", "max"]).round(0).astype(int), in whole yards, for a
\* table in which every club has a number
SummaryOf(t) ==
    LET order == DisplayOrder(GroupKeys(t)) IN
    [i \in 1..Len(order) |->
        LET vals == ClubTotals(t, order[i]) IN
        [Club |-> order[i],
         min  |-> RoundHalfEven(Min(vals), Scale),
         mean |-> RoundHalfEven(Sum(vals), Len(vals) * Scale),
         max  |-> RoundHalfEven(Max(vals), Scale)]]

\* astype(int) raises on a NaN: some club has no Total Distance number
SummaryRaises(t) == \E c \in Range(GroupKeys(t)) : ClubTotals(t, c) = <<>>

----------------------------------------------------------------------------
(* The steps of the script *)

\* lines 105-107
FixDirectional ==
    /\ pc = "directional"
    /\ filtered_df' = ApplyToColumns(filtered_df, directional_cols,
                                   [x \in Cells(filtered_df, directional_cols) |-> convert_lr_to_float(x)])
    /\ pc' = "coerce"
    /\ UNCHANGED <<remove_outliers, target_distance, best_match, distance_summary,
                   coerced_df, parseVars, loadVars>>

\* lines 110-113
CoerceNumeric ==
    /\ pc = "coerce"
    /\ filtered_df' = ApplyToColumns(filtered_df, numeric_cols,
                                   [x \in Cells(filtered_df, numeric_cols) |-> to_numeric(x)])
    /\ coerced_df' = filtered_df'
    /\ pc' = "recommend"
    /\ UNCHANGED <<remove_outliers, target_distance, best_match, distance_summary,
                   parseVars, loadVars>>

\* lines 117-129; round() of a NaN average raises ValueError
Recommend ==
    /\ pc = "recommend"
    /\ IF target_distance > 0 /\ "Total Distance" \in filtered_df.columns
       THEN \E club \in BestMatches(filtered_df, target_distance * Scale) :
               IF ClubTotals(filtered_df, club) = <<>>
               THEN pc' = "raised in recommendation" /\ UNCHANGED best_match
               ELSE pc' = "summary" /\ best_match' = club
       ELSE pc' = "summary" /\ UNCHANGED best_match
    /\ UNCHANGED <<filtered_df, remove_outliers, target_distance, distance_summary,
                   coerced_df, parseVars, loadVars>>

\* lines 149-158, which run whether or not the column exists: KeyError
\* without it, and the cast to int raises on a club without a number
Summarise ==
    /\ pc = "summary"
    /\ IF "Total Distance" \notin filtered_df.columns \/ SummaryRaises(filtered_df)
       THEN pc' = "raised in summary" /\ UNCHANGED distance_summary
       ELSE pc' = "charts" /\ distance_summary' = SummaryOf(filtered_df)
    /\ UNCHANGED <<filtered_df, remove_outliers, target_distance, best_match,
                   coerced_df, parseVars, loadVars>>

\* the dispersion chart raises: hover_data names a column the table lacks
\* (line 173), or the Offline mean of a club of more than two shots meets a
\* string (line 183)
ChartRaises(t) ==
    /\ "Carry" \in t.columns
    /\ "Offline" \in t.columns
    /\ \/ ~({"Ball Speed", "Spin Rate"} \subseteq t.columns)
       \/ \E c \in Range(GroupKeys(t)) :
             LET club_data == SelectSeq(t.rows, LAMBDA r : r["Club"] = c) IN
             /\ Len(club_data) > 2
             /\ \E j \in 1..Len(club_data) : IsStr(club_data[j]["Offline"])

\* lines 160-238: the charts read the table and leave it as it is
Charts ==
    /\ pc = "charts"
    /\ pc' = IF ChartRaises(filtered_df) THEN "raised in charts"
             ELSE IF remove_outliers THEN "iqr Carry"
             ELSE "table"
    /\ UNCHANGED <<pipeVars, parseVars, loadVars>>

\* first turn of the loop of lines 242-247
IQRCarry ==
    /\ pc = "iqr Carry"
    /\ filtered_df' = IQRPass(filtered_df, "Carry")
    /\ pc' = "iqr Total Distance"
    /\ UNCHANGED <<remove_outliers, target_distance, best_match, distance_summary,
                   coerced_df, parseVars, loadVars>>

\* second turn of the loop
IQRTotal ==
    /\ pc = "iqr Total Distance"
    /\ filtered_df' = IQRPass(filtered_df, "Total Distance")
    /\ pc' = "custom rules"
    /\ UNCHANGED <<remove_outliers, target_distance, best_match, distance_summary,
                   coerced_df, parseVars, loadVars>>

\* lines 250-255
ApplyCustomRules ==
    /\ pc = "custom rules"
    /\ filtered_df' = CustomRules(filtered_df)
    /\ pc' = "table"
    /\ UNCHANGED <<remove_outliers, target_distance, best_match, distance_summary,
                   coerced_df, parseVars, loadVars>>

\* lines 258-259: the table is shown and the script ends
ShowTable ==
    /\ pc = "table"
    /\ pc' = "done"
    /\ UNCHANGED <<pipeVars, parseVars, loadVars>>

NextPipeline ==
    \/ FixDirectional
    \/ CoerceNumeric
    \/ Recommend
    \/ Summarise
    \/ Charts
    \/ IQRCarry
    \/ IQRTotal
    \/ ApplyCustomRules
    \/ ShowTable

----------------------------------------------------------------------------
(* The tables the pipeline specifications start from: filtered_df after    *)
(* the club selection of line 78, which is never empty (line 79).          *)

FullColumns == {"Club", "Carry", "Total Distance", "Ball Speed", "Offline", "Spin Rate"}

Row(club, carry, total, speed, offline) ==
    [c \in FullColumns |->
        CASE c = "Club" -> club
          [] c = "Carry" -> carry
          [] c = "Total Distance" -> total
          [] c = "Ball Speed" -> speed
          [] c = "Offline" -> offline
          [] c = "Spin Rate" -> NaN]

\* a table of the given rows, cut to the columns cols
Table(cols, rows) ==
    [columns |-> cols,
     rows |-> [j \in 1..Len(rows) |-> [c \in cols |-> rows[j][c]]]]

NonEmptySeqs(S, n) == UNION {[1..k -> S] : k \in 1..n}

\* shots of two clubs; "-" is a Total cell that is no number, 20 a carry
\* under the fixed bound
AggRows ==
    {Row(club, carry, total, Yards(50), Str(<<"R", "5">>)) :
        club \in {"7 Iron", "8 Iron"},
        carry \in {Yards(140), Yards(20)},
        total \in {Yards(145), Yards(155), Str(<<"-">>)}}

\* SpecPipeline: the script from the directional fix to the shown table
InitPipeline ==
    /\ pc = "directional"
    /\ \E cols \in {FullColumns, FullColumns \ {"Total Distance"}},
          rows \in NonEmptySeqs(AggRows, MaxAggRows) :
           filtered_df = Table(cols, rows)
    /\ remove_outliers \in BOOLEAN
    /\ target_distance \in {0, 150}
    /\ best_match = ""
    /\ distance_summary = <<>>
    /\ coerced_df = <<>>
    /\ IdleParse /\ IdleLoad

SpecPipeline == InitPipeline /\ [][NextPipeline]_vars

\* shots of one club with close carries and totals, and one without a carry
IQRRows ==
    {Row("7 Iron", carry, total, Yards(50), Num(0)) :
        carry \in {Yards(30), Yards(34)},
        total \in {Yards(40), Yards(44)}}
    \cup {Row("7 Iron", NaN, Yards(40), Yards(50), Num(0))}

\* shots on either side of each fixed bound, with Offline cells of every kind
BoundRows ==
    {Row("7 Iron", Yards(35), Yards(40), speed, Str(<<"L", "5", "0">>)) :
        speed \in {Yards(39), Yards(40), NaN}}
    \cup {Row("7 Iron", Yards(35), Yards(40), Yards(50), offline) :
            offline \in {Str(<<"R", "5", "1">>), Str(<<"l", "5">>), NaN}}
    \cup {Row("7 Iron", carry, Yards(40), Yards(50), Num(0)) :
            carry \in {Yards(29), Yards(30)}}

\* SpecOutlier: the same script on the tables the outlier filter is checked
\* on, without a target distance
InitOutlier ==
    /\ pc = "directional"
    /\ \/ \E rows \in NonEmptySeqs(IQRRows, MaxRows) :
              /\ filtered_df = Table(FullColumns, rows)
              /\ remove_outliers = TRUE
       \/ \E cols \in {FullColumns, FullColumns \ {"Offline"}, FullColumns \ {"Carry"},
                        FullColumns \ {"Ball Speed", "Offline"}},
             rows \in NonEmptySeqs(BoundRows, MaxBoundRows) :
              /\ filtered_df = Table(cols, rows)
              /\ remove_outliers \in BOOLEAN
    /\ target_distance = 0
    /\ best_match = ""
    /\ distance_summary = <<>>
    /\ coerced_df = <<>>
    /\ IdleParse /\ IdleLoad

SpecOutlier == InitOutlier /\ [][NextPipeline]_vars

----------------------------------------------------------------------------
(* Claims about the outlier filter *)

\* the filter has run and the script has reached the shown table
Filtered == remove_outliers /\ pc \in {"table", "done"}

\* C2 as stated: the enabled outlier filter applied to its own output
\* removes no further row.
C2_Idempotent == Filtered => OutlierFilter(filtered_df) = filtered_df

\* the fixed bounds, read on one row of a table with the columns cols
WithinBounds(r, cols) ==
    /\ "Ball Speed" \in cols =>
          r["Ball Speed"].k = "num" /\ r["Ball Speed"].v >= 40 * Scale
    /\ "Carry" \in cols =>
          r["Carry"].k = "num" /\ r["Carry"].v >= 30 * Scale
    /\ "Offline" \in cols =>
          /\ r["Offline"].k = "num"
          /\ r["Offline"].v <= 50 * Scale
          /\ r["Offline"].v >= 0 - 50 * Scale

\* C2 amended: applied to its own output, the filter removes rows only in
\* its IQR passes, whose quartiles are recomputed over the smaller table: the
\* fixed bounds remove nothing more, and the filter changes nothing when the
\* recomputed fences keep every row.
C2_OnlyFencesMove ==
    Filtered =>
        LET again == IQRPasses(filtered_df) IN
        /\ \A j \in 1..Len(again.rows) : WithinBounds(again.rows[j], again.columns)
        /\ OutlierFilter(filtered_df) = again
        /\ again = filtered_df => OutlierFilter(filtered_df) = filtered_df

\* C2 witness: the filter has run, and run again on its output it removes
\* another row
C2_Witness ==
    /\ Filtered
    /\ filtered_df.rows # <<>>
    /\ Len(OutlierFilter(filtered_df).rows) < Len(filtered_df.rows)

\* C8: after the enabled filter every remaining row meets the fixed bounds
\* of the columns present: ball speed >= 40, carry >= 30, and an offline
\* that is a number of magnitude <= 50 (never missing, never a string).
C8_BoundsHold ==
    Filtered =>
        \A j \in 1..Len(filtered_df.rows) :
            WithinBounds(filtered_df.rows[j], filtered_df.columns)

\* C8 witness: the filter kept a shot of a table that also held a shot
\* whose offline was still a string after the directional fix
C8_Witness ==
    /\ Filtered
    /\ filtered_df.rows # <<>>
    /\ "Offline" \in filtered_df.columns
    /\ \E j \in 1..Len(coerced_df.rows) : coerced_df.rows[j]["Offline"].k = "str"

\* x lies inside the Tukey fence of the numbers vals, ends included
InFence(x, vals) ==
    /\ x.k = "num"
    /\ vals # <<>>
    /\ LET q1 == Quantile4(vals, 1)
           q3 == Quantile4(vals, 3)
       IN  /\ 2 * q1 - 3 * (q3 - q1) <= 8 * x.v
           /\ 8 * x.v <= 2 * q3 + 3 * (q3 - q1)

\* the rows of the coerced table whose carry lies inside the carry fence
CarrySurvivors ==
    IF "Carry" \in coerced_df.columns
    THEN SelectSeq(coerced_df.rows,
                   LAMBDA r : InFence(r["Carry"], ColumnNumbers(coerced_df.rows, "Carry")))
    ELSE coerced_df.rows

\* C10: after the two IQR passes the table holds, in their order, exactly
\* the rows whose carry is inside the fence of all carries and whose total
\* is inside the fence of the totals of the rows that survived the carry
\* pass, both ends of each fence kept.
C10_CumulativeInclusive ==
    pc = "custom rules" =>
        /\ filtered_df.columns = coerced_df.columns
        /\ filtered_df.rows =
              SelectSeq(CarrySurvivors,
                        LAMBDA r : InFence(r["Total Distance"],
                                           ColumnNumbers(CarrySurvivors, "Total Distance")))

\* C10 witness: the carry pass removed a shot for its carry, a kept shot
\* sits on an end of the carry fence, and the total pass removed a shot that
\* the fence of all totals would have kept
C10_Witness ==
    /\ pc = "custom rules"
    /\ \E j \in 1..Len(coerced_df.rows) :
           /\ coerced_df.rows[j]["Carry"].k = "num"
           /\ ~InFence(coerced_df.rows[j]["Carry"], ColumnNumbers(coerced_df.rows, "Carry"))
    /\ \E j \in 1..Len(filtered_df.rows) :
           LET vals == ColumnNumbers(coerced_df.rows, "Carry") IN
           8 * filtered_df.rows[j]["Carry"].v
               = 2 * Quantile4(vals, 1) - 3 * (Quantile4(vals, 3) - Quantile4(vals, 1))
    /\ \E j \in 1..Len(CarrySurvivors) :
           /\ InFence(CarrySurvivors[j]["Total Distance"],
                      ColumnNumbers(coerced_df.rows, "Total Distance"))
           /\ ~InFence(CarrySurvivors[j]["Total Distance"],
                       ColumnNumbers(CarrySurvivors, "Total Distance"))

----------------------------------------------------------------------------
(* Claims about the aggregation *)

\* C4 as stated: with the outlier filter enabled, the per-club summary and
\* the recommendation the script has produced are those of the
\* outlier-filtered table.
C4_AggregatesOfFilteredTable ==
    (pc = "done" /\ remove_outliers) =>
        /\ ~SummaryRaises(filtered_df) => distance_summary = SummaryOf(filtered_df)
        /\ (target_distance > 0 /\ filtered_df.rows # <<>>) =>
              best_match \in BestMatches(filtered_df, target_distance * Scale)

\* place of a club in group-iteration order
GroupPlace(club) == CHOOSE i \in 1..Len(GroupOrder) : GroupOrder[i] = club

\* the clubs with a mean total distance, and |mean - target| of one of them
\* times its number of shots
ClubsWithMean(t) == {c \in Range(GroupKeys(t)) : ClubTotals(t, c) # <<>>}
Gap(t, c, target) == Abs(Sum(ClubTotals(t, c)) - target * Len(ClubTotals(t, c)))

\* the clubs whose mean is nearest to the target
Nearest(t, target) ==
    {c \in ClubsWithMean(t) :
        \A d \in ClubsWithMean(t) :
            Gap(t, c, target) * Len(ClubTotals(t, d))
                <= Gap(t, d, target) * Len(ClubTotals(t, c))}

C9_MissingValuesNeverAbort ==
    "Total Distance" \in filtered_df.columns =>
        pc \notin {"raised in recommendation", "raised in summary"}

====
